---- MODULE Spec2Model ----
(***************************************************************************)
(* Model of the retry executor (src/src/lib.rs, execute_with_retry and     *)
(* cal_delay), the error classifier (src/src/types.rs, is_retriable) and   *)
(* the transaction monitor (src/src/monitor.rs).                           *)
(*                                                                         *)
(* Text is modelled as sequences of small integers ("characters").         *)
(* Durations are whole ticks (milliseconds for the retry executor).        *)
(***************************************************************************)
EXTENDS Integers, Sequences, FiniteSets, TLC

(***************************************************************************)
(* Bounds of the model.                                                    *)
(***************************************************************************)
MaxRetriesBound == 2
MaxTimeout == 4
MaxPollInterval == 2
MaxRequired == 2
MaxBatch == 2
MaxLatency == 1

(***************************************************************************)
(* Option::None for the integer-valued options (confirmations, block time) *)
(***************************************************************************)
NoneInt == -1

Min(a, b) == IF a <= b THEN a ELSE b

RECURSIVE Pow(_, _)
Pow(b, e) == IF e = 0 THEN 1 ELSE b * Pow(b, e - 1)

\* str::contains on character sequences
Contains(s, sub) ==
    \E i \in 0..(Len(s) - Len(sub)) :
        \A j \in 1..Len(sub) : s[i + j] = sub[j]

(***************************************************************************)
(* JupiterError and its retriable predicate (types.rs).  The message of a  *)
(* RequestFailed is a sequence of characters; digits stand for themselves  *)
(* and 9 stands for any non-digit text.                                    *)
(***************************************************************************)
ErrorKinds ==
    {"RequestFailed", "InvalidInput", "NetworkError", "ValidationError",
     "RateLimitExceeded", "TransactionFailed", "ParseError", "Error"}

\* get_quote, lines 208-217: a response that is not a success becomes
\* RequestFailed("HTTP {status}: {error_text}").  The status is its three
\* digits; 9 stands for the text around it.
HttpResponses ==
    {[status |-> <<5, 0, 0>>, body |-> <<>>], [status |-> <<5, 0, 2>>, body |-> <<>>],
     [status |-> <<5, 0, 3>>, body |-> <<>>], [status |-> <<5, 0, 4>>, body |-> <<>>],
     [status |-> <<4, 0, 0>>, body |-> <<>>],
     [status |-> <<4, 0, 0>>, body |-> <<1, 5, 0, 0>>]}

RequestFailedMessage(response) == <<9>> \o response.status \o <<9>> \o response.body

RequestMessages == {RequestFailedMessage(r) : r \in HttpResponses}

JupiterErrors ==
    {[kind |-> "RequestFailed", msg |-> m] : m \in RequestMessages}
    \cup {[kind |-> k, msg |-> <<9>>] : k \in ErrorKinds \ {"RequestFailed"}}

is_retriable(e) ==
    CASE e.kind = "NetworkError" -> TRUE
      [] e.kind = "RequestFailed" ->
            \/ Contains(e.msg, <<5, 0, 0>>)
            \/ Contains(e.msg, <<5, 0, 2>>)
            \/ Contains(e.msg, <<5, 0, 3>>)
      [] e.kind = "RateLimitExceeded" -> TRUE
      [] e.kind = "InvalidInput" -> FALSE
      [] e.kind = "ParseError" -> FALSE
      [] e.kind = "TransactionFailed" -> FALSE
      [] e.kind = "Error" -> FALSE
      [] e.kind = "ValidationError" -> FALSE

(***************************************************************************)
(* RetryConfig (retry.rs).  backoff_multiplier is the rational num/den.    *)
(***************************************************************************)
InitialDelays == {1, 500}
MaxDelays == {2, 5000}
Multipliers == {<<1, 1>>, <<3, 2>>, <<2, 1>>}

\* impl Default for RetryConfig
DefaultRetryConfig ==
    [max_retries |-> 3, initial_delay |-> 500, max_delay |-> 5000,
     backoff_multiplier |-> <<2, 1>>]

RetryConfigs ==
    [max_retries : 0..MaxRetriesBound, initial_delay : InitialDelays,
     max_delay : MaxDelays, backoff_multiplier : Multipliers]
    \cup {DefaultRetryConfig}

\* mutant: the delay is not capped by max_delay
cal_delayUncapped(attempt, config) ==
    LET num == config.backoff_multiplier[1]
        den == config.backoff_multiplier[2]
    IN  (config.initial_delay * Pow(num, attempt)) \div Pow(den, attempt)

\* mutant: the exponent is the one-based attempt number
cal_delayOneBased(attempt, config) ==
    LET num == config.backoff_multiplier[1]
        den == config.backoff_multiplier[2]
        scaled == (config.initial_delay * Pow(num, attempt + 1)) \div Pow(den, attempt + 1)
    IN  Min(scaled, config.max_delay)

\* cal_delay: min(initial_delay * multiplier^attempt, max_delay), truncated
\* to whole milliseconds by the cast to u64.
cal_delay(attempt, config) ==
    LET num == config.backoff_multiplier[1]
        den == config.backoff_multiplier[2]
        scaled == (config.initial_delay * Pow(num, attempt)) \div Pow(den, attempt)
    IN  Min(scaled, config.max_delay)

NoError == [kind |-> "None", msg |-> <<>>]

VARIABLES
    rconfig,      \* the RetryConfig of the execution
    rpc,          \* position of execute_with_retry: "call", "sleep", "done"
    attempt,      \* loop variable of execute_with_retry
    attempts,     \* number of invocations of the operation so far
    slept,        \* the sleeps performed so far, in order
    last_error,   \* Option<JupiterError>
    outcomes,     \* outcomes of the invocations so far, in order
    rret          \* the value returned by execute_with_retry

evars == <<rconfig, rpc, attempt, attempts, slept, last_error, outcomes, rret>>

\* get_quote_with_retry, run with max_retries = rconfig.max_retries on the
\* outcomes the operation gave to execute_with_retry
VARIABLES
    qpc,          \* position of get_quote_with_retry: "call", "sleep", "done"
    qattempt,     \* loop variable of get_quote_with_retry
    qattempts,    \* number of invocations of get_quote so far
    qslept,       \* the sleeps performed so far, in milliseconds
    qret          \* the value returned by get_quote_with_retry

qvars == <<qpc, qattempt, qattempts, qslept, qret>>

rvars == <<evars, qvars>>

VARIABLES
    mode,         \* "single": monitor_transaction_status is the entry point;
                  \* "batch": monitor_transactions_batch is
    mconfig,      \* the TransactionMonitorConfig
    client,       \* solana.client is Some
    signatures,   \* the input signature strings
    idx,          \* position of the for loop over signatures (1-based)
    results,      \* the Vec of results of the batch
    mret,         \* what the entry point returned
    mpc,          \* position in the code
    signature,    \* the parsed Signature of the running session
    start,        \* Instant taken at line 88
    clock,        \* the monotonic clock
    probe,        \* reply of the status query of the running iteration
    status_rec,   \* the status record obtained in the running iteration
    logs,         \* the logs obtained in the running iteration
    fetched,      \* the reply of the transaction fetch of the running iteration
    fetches,      \* transaction fetches issued by the running iteration, in order
    evaluation,   \* value of check_transaction_status in the running iteration
    polls,        \* status queries issued by the running session
    naps,         \* sleeps performed by the running session
    latency,      \* time spent inside network calls by the running session
    all_pending,  \* every poll of the session so far got a record without err
    all_failed    \* every status query of the session so far failed
                  \* and with a count below confirmations_required

\* locals of one iteration of the loop of monitor_transaction_status
ivars == <<probe, status_rec, logs, fetched, fetches, evaluation>>

mvars == <<mode, mconfig, client, signatures, idx, results, mret, mpc, signature,
           start, clock, probe, status_rec, logs, fetched, fetches, evaluation,
           polls, naps, latency, all_pending, all_failed>>

vars == <<rvars, mvars>>

RetryInit ==
    /\ rconfig \in RetryConfigs
    /\ rpc = "call"
    /\ attempt = 0
    /\ attempts = 0
    /\ slept = <<>>
    /\ last_error = NoError
    /\ outcomes = <<>>
    /\ rret = [ok |-> FALSE, err |-> NoError, returned |-> FALSE]

\* mutant: the first failure is kept
RememberFirst(previous, e) == IF previous = NoError THEN e ELSE previous

\* line 734: last_error = Some(e.clone())
Remember(previous, e) == e

\* One iteration of the for loop of lines 730-744 up to its suspension point:
\* the operation is invoked and its outcome handled (return, break, or go to
\* sleep).  The loop range is 0..=range_last; a failure is retried when
\* attempt < retry_below and, if classify, the failure is retriable (line 735).
RetryIteration(range_last, retry_below, classify) ==
    /\ rpc = "call"
    /\ attempt <= range_last
    /\ \E out \in {[kind |-> "Ok", msg |-> <<>>]} \cup JupiterErrors :
        /\ attempts' = attempts + 1
        /\ outcomes' = Append(outcomes, out)
        /\ IF out.kind = "Ok"
           THEN /\ rret' = [ok |-> TRUE, err |-> NoError, returned |-> TRUE]
                /\ rpc' = "done"
                /\ UNCHANGED <<last_error, attempt>>
           ELSE /\ last_error' = Remember(last_error, out)
                /\ IF attempt < retry_below /\ (classify => is_retriable(out))
                   THEN /\ rpc' = "sleep"
                        /\ UNCHANGED <<rret, attempt>>
                   ELSE /\ rret' = [ok |-> FALSE, err |-> last_error', returned |-> TRUE]
                        /\ rpc' = "done"
                        /\ UNCHANGED attempt
    /\ UNCHANGED <<rconfig, slept>>
    /\ UNCHANGED qvars
    /\ UNCHANGED mvars

\* mutant: the loop runs one round too many
RetryAttemptOneMore ==
    RetryIteration(rconfig.max_retries + 1, rconfig.max_retries + 1, TRUE)

\* mutant: the failure is not classified before retrying
RetryAttemptAnyError ==
    RetryIteration(rconfig.max_retries, rconfig.max_retries, FALSE)

\* mutant: the failure of the last round is followed by a sleep as well
RetryAttemptSleepingLast ==
    RetryIteration(rconfig.max_retries, rconfig.max_retries + 1, TRUE)

RetryAttempt ==
    RetryIteration(rconfig.max_retries, rconfig.max_retries, TRUE)

\* mutant: the retry sleep holds up the monitor as well
RetrySleepSharedClock ==
    /\ rpc = "sleep"
    /\ slept' = Append(slept, cal_delay(attempt, rconfig))
    /\ attempt' = attempt + 1
    /\ rpc' = "call"
    /\ UNCHANGED <<rconfig, attempts, last_error, outcomes, rret>>
    /\ UNCHANGED qvars
    /\ clock' = clock + cal_delay(attempt, rconfig)
    /\ UNCHANGED <<mode, mconfig, client, signatures, idx, results, mret, mpc,
                   signature, start, ivars, polls, naps, latency, all_pending, all_failed>>

\* time::sleep(delay).await; continue
RetrySleep ==
    /\ rpc = "sleep"
    /\ slept' = Append(slept, cal_delay(attempt, rconfig))
    /\ attempt' = attempt + 1
    /\ rpc' = "call"
    /\ UNCHANGED <<rconfig, attempts, last_error, outcomes, rret>>
    /\ UNCHANGED qvars
    /\ UNCHANGED mvars

RetryNext == RetryAttempt \/ RetrySleep

\* the step of the sleeps of get_quote_with_retry, in milliseconds
QuoteDelayStep == 200

QuoteInit ==
    /\ qpc = "call"
    /\ qattempt = 0
    /\ qattempts = 0
    /\ qslept = <<>>
    /\ qret = [ok |-> FALSE, err |-> NoError, returned |-> FALSE]

QuoteIdle ==
    /\ qpc = "done"
    /\ qattempt = 0
    /\ qattempts = 0
    /\ qslept = <<>>
    /\ qret = [ok |-> FALSE, err |-> NoError, returned |-> FALSE]

\* lib.rs 485-496: one round of the for loop of get_quote_with_retry up to its
\* return or its sleep; get_quote answers with the next recorded outcome;
\* give_up_at is the value of attempt at which a failure is returned unclassified
QuoteIteration(give_up_at) ==
    /\ qpc = "call"
    /\ qattempt <= rconfig.max_retries
    /\ qattempts < Len(outcomes)
    /\ LET out == outcomes[qattempts + 1]
       IN  /\ qattempts' = qattempts + 1
           /\ IF out.kind = "Ok"
              THEN /\ qret' = [ok |-> TRUE, err |-> NoError, returned |-> TRUE]
                   /\ qpc' = "done"
              ELSE IF qattempt = give_up_at
              THEN /\ qret' = [ok |-> FALSE, err |-> out, returned |-> TRUE]
                   /\ qpc' = "done"
              ELSE IF is_retriable(out)
              THEN /\ qpc' = "sleep"
                   /\ UNCHANGED qret
              ELSE /\ qret' = [ok |-> FALSE, err |-> out, returned |-> TRUE]
                   /\ qpc' = "done"
    /\ UNCHANGED <<qattempt, qslept>>
    /\ UNCHANGED evars
    /\ UNCHANGED mvars

\* mutant: the failure of the round before the last is returned unclassified
QuoteAttemptOneFewer ==
    QuoteIteration(rconfig.max_retries - 1)

QuoteAttempt ==
    QuoteIteration(rconfig.max_retries)

\* lib.rs 491-493: sleep 200 * (attempt + 1) ms; continue
QuoteSleep ==
    /\ qpc = "sleep"
    /\ qslept' = Append(qslept, QuoteDelayStep * (qattempt + 1))
    /\ qattempt' = qattempt + 1
    /\ qpc' = "call"
    /\ UNCHANGED <<qattempts, qret>>
    /\ UNCHANGED evars
    /\ UNCHANGED mvars

QuoteNext == QuoteAttempt \/ QuoteSleep

(***************************************************************************)
(* Signature::from_str and Signature::to_string (monitor.rs lines 86, 116, *)
(* 176, 226).  A signature is SigBytes bytes; its text form is base-Base   *)
(* with alphabet characters 1..Base (character c has digit value c - 1, so *)
(* character 1 is the zero digit) and every other character is rejected.   *)
(* Leading zero digits stand for leading zero bytes.                       *)
(***************************************************************************)
Base == 3
ByteMod == 4
SigBytes == 1

RECURSIVE LeadingCount(_, _)
LeadingCount(s, c) ==
    IF s # <<>> /\ Head(s) = c THEN 1 + LeadingCount(Tail(s), c) ELSE 0

RECURSIVE Repeat(_, _)
Repeat(c, n) == IF n = 0 THEN <<>> ELSE <<c>> \o Repeat(c, n - 1)

RECURSIVE DigitsValue(_, _)
DigitsValue(s, acc) ==
    IF s = <<>> THEN acc ELSE DigitsValue(Tail(s), acc * Base + (Head(s) - 1))

\* minimal big-endian representation of n in the given radix (empty for 0)
RECURSIVE ToRadix(_, _)
ToRadix(n, radix) ==
    IF n = 0 THEN <<>> ELSE Append(ToRadix(n \div radix, radix), n % radix)

from_str(s) ==
    IF \E i \in 1..Len(s) : s[i] \notin 1..Base
    THEN [ok |-> FALSE, bytes |-> <<>>, err |-> "failed to decode string to signature"]
    ELSE LET bytes == Repeat(0, LeadingCount(s, 1)) \o ToRadix(DigitsValue(s, 0), ByteMod)
         IN  IF Len(bytes) = SigBytes
             THEN [ok |-> TRUE, bytes |-> bytes, err |-> ""]
             ELSE [ok |-> FALSE, bytes |-> <<>>,
                   err |-> "string decoded to wrong size for signature"]

RECURSIVE BytesValue(_, _)
BytesValue(b, acc) ==
    IF b = <<>> THEN acc ELSE BytesValue(Tail(b), acc * ByteMod + Head(b))

to_string(bytes) ==
    LET digits == ToRadix(BytesValue(bytes, 0), Base)
    IN  Repeat(1, LeadingCount(bytes, 0)) \o [i \in 1..Len(digits) |-> digits[i] + 1]

(***************************************************************************)
(* Transaction monitor (monitor.rs).                                       *)
(***************************************************************************)
U8Mod == 256

SigStrings == {<<2>>, <<3>>, <<0>>, <<2, 2>>, <<1, 2>>}

MonitorConfigs ==
    [timeout : 0..MaxTimeout, poll_interval : 1..MaxPollInterval,
     confirmations_required : 0..MaxRequired]

\* what get_signature_statuses can report for the signature
ConfirmationCounts == (0..MaxRequired) \cup {NoneInt, U8Mod + 1}
StatusRecords ==
    [slot : {0, 1}, confirmations : ConfirmationCounts,
     err : {"None", "InstructionError"}]
NoRecord == [slot |-> 0, confirmations |-> NoneInt, err |-> "NoRecord"]

\* what get_transaction_with_config can return on success
LogOptions == {[some |-> FALSE, v |-> <<>>], [some |-> TRUE, v |-> <<"Program log">>]}
Transactions ==
    [slot : {2}, block_time : {NoneInt, 7}, log_messages : LogOptions,
     err : {"None", "InstructionError"}]
BlockTimes == {7}

TransactionMonitorResult(sig, st, slot, bt, conf, lg, er) ==
    [signature |-> sig, status |-> st, slot |-> slot, block_time |-> bt,
     confirmations |-> conf, logs |-> lg, error |-> er]

\* mutant: at least one confirmation is needed whatever the configuration
TransactionStatusOfAtLeastOne(status, config) ==
    IF status.err # "None" THEN "Failed"
    ELSE IF status.confirmations = NoneInt THEN "Finalized"
    ELSE IF status.confirmations >= config.confirmations_required
            /\ status.confirmations >= 1 THEN "Confirmed"
    ELSE "Pending"

\* mutant: the threshold itself does not count as confirmed
TransactionStatusOfStrict(status, config) ==
    IF status.err # "None" THEN "Failed"
    ELSE IF status.confirmations = NoneInt THEN "Finalized"
    ELSE IF status.confirmations > config.confirmations_required THEN "Confirmed"
    ELSE "Pending"

\* lines 149-162: the status decided from a status record
TransactionStatusOf(status, config) ==
    IF status.err # "None" THEN "Failed"
    ELSE IF status.confirmations = NoneInt THEN "Finalized"
    ELSE IF status.confirmations >= config.confirmations_required THEN "Confirmed"
    ELSE "Pending"

\* mutant: the record's err is not carried into the result
StatusResultWithoutError(sig, status, config, lg, bt) ==
    TransactionMonitorResult(to_string(sig), TransactionStatusOf(status, config),
        status.slot, bt,
        IF status.confirmations = NoneInt THEN NoneInt
        ELSE status.confirmations % U8Mod,
        lg,
        "None")

\* lines 175-183: the result built from a status record
StatusResult(sig, status, config, lg, bt) ==
    TransactionMonitorResult(to_string(sig), TransactionStatusOf(status, config),
        status.slot, bt,
        IF status.confirmations = NoneInt THEN NoneInt
        ELSE status.confirmations % U8Mod,
        lg,
        status.err)

\* mutant: the fallback reports no confirmation count
ViaResultWithoutCount(sig, tx, config) ==
    TransactionMonitorResult(to_string(sig), "Confirmed", tx.slot, tx.block_time,
        NoneInt,
        IF tx.log_messages.some THEN tx.log_messages.v ELSE <<>>,
        "None")

\* mutant: a fetched transaction whose meta has an err is reported as Failed
ViaResultByMeta(sig, tx, config) ==
    TransactionMonitorResult(to_string(sig),
        IF tx.err = "None" THEN "Confirmed" ELSE "Failed",
        tx.slot, tx.block_time,
        config.confirmations_required,
        IF tx.log_messages.some THEN tx.log_messages.v ELSE <<>>,
        tx.err)

\* lines 212-234: the result built from a fetched transaction
ViaResult(sig, tx, config) ==
    TransactionMonitorResult(to_string(sig), "Confirmed", tx.slot, tx.block_time,
        config.confirmations_required,
        IF tx.log_messages.some THEN tx.log_messages.v ELSE <<>>,
        "None")

\* lines 115-123
\* mutant: the timeout result reports a confirmation count of 0
TimeoutResultZeroCount(sig) ==
    TransactionMonitorResult(to_string(sig), "Timeout", 0, NoneInt, 0, <<>>,
        "Transaction monitoring timeout")

TimeoutResult(sig) ==
    TransactionMonitorResult(to_string(sig), "Timeout", 0, NoneInt, NoneInt, <<>>,
        "Transaction monitoring timeout")

\* line 87: map_err(|e| JupiterError::InvalidInput(e.to_string()))
InvalidInput(message) == [kind |-> "InvalidInput", msg |-> message]

\* impl Display for JupiterError (types.rs): a prefix, then the message
Display(e) ==
    (CASE e.kind = "RequestFailed" -> "Request failed: "
       [] e.kind = "InvalidInput" -> "Invalid input: "
       [] e.kind = "NetworkError" -> "Network error: "
       [] OTHER -> "Parse error: ") \o e.msg

\* lines 317-325
BatchErrorResult(s, e) ==
    TransactionMonitorResult(s, "Failed", 0, NoneInt, NoneInt, <<>>, Display(e))

NoResult == TransactionMonitorResult(<<>>, "NoResult", 0, NoneInt, NoneInt, <<>>, "None")

NoTransaction ==
    [slot |-> 0, block_time |-> NoneInt, log_messages |-> [some |-> FALSE, v |-> <<>>],
     err |-> "None", found |-> FALSE]

FoundTransactions ==
    {[slot |-> t.slot, block_time |-> t.block_time, log_messages |-> t.log_messages,
      err |-> t.err, found |-> TRUE] : t \in Transactions}

\* the value of check_transaction_status: Ok(Some(result)), Ok(None), Err(e)
NoEvaluation == [kind |-> "NotYet", result |-> NoResult]

NotReturned == [returned |-> FALSE, ok |-> FALSE, result |-> NoResult, err |-> NoError]

IterationReset ==
    /\ probe' = "NotYet"
    /\ status_rec' = NoRecord
    /\ logs' = <<>>
    /\ fetched' = NoTransaction
    /\ fetches' = <<>>
    /\ evaluation' = NoEvaluation

SessionIdle ==
    /\ idx = 1
    /\ results = <<>>
    /\ mret = NotReturned
    /\ signature = <<>>
    /\ start = 0
    /\ clock = 0
    /\ probe = "NotYet"
    /\ status_rec = NoRecord
    /\ logs = <<>>
    /\ fetched = NoTransaction
    /\ fetches = <<>>
    /\ evaluation = NoEvaluation
    /\ polls = 0
    /\ naps = 0
    /\ latency = 0
    /\ all_pending = TRUE
    /\ all_failed = TRUE

\* a direct call of monitor_transaction_status
MonitorInit ==
    /\ mode = "single"
    /\ mconfig \in MonitorConfigs
    /\ client \in BOOLEAN
    /\ signatures \in [1..1 -> SigStrings]
    /\ mpc = "call"
    /\ SessionIdle

BatchSigStrings == {<<2>>, <<3>>, <<0>>, <<1, 2>>}
BatchConfigs == [timeout : {1}, poll_interval : {1}, confirmations_required : {1}]

BatchInputs ==
    UNION {[1..n -> BatchSigStrings] : n \in 0..MaxBatch}

\* a call of monitor_transactions_batch
BatchInit ==
    /\ mode = "batch"
    /\ mconfig \in BatchConfigs
    /\ client \in BOOLEAN
    /\ signatures \in BatchInputs
    /\ mpc = "batch"
    /\ SessionIdle

\* mutant: a signature that raised an error is skipped
FinishSkippingErrors(ok, result, err) ==
    IF mode = "single"
    THEN /\ mret' = [returned |-> TRUE, ok |-> ok, result |-> result, err |-> err]
         /\ mpc' = "done"
         /\ UNCHANGED <<results, idx>>
    ELSE /\ results' = IF ok THEN Append(results, result) ELSE results
         /\ idx' = idx + 1
         /\ mpc' = "batch"
         /\ UNCHANGED mret

\* monitor_transaction_status returns: to the caller in single mode, into the
\* match of lines 311-327 in batch mode.
Finish(ok, result, err) ==
    IF mode = "single"
    THEN /\ mret' = [returned |-> TRUE, ok |-> ok, result |-> result, err |-> err]
         /\ mpc' = "done"
         /\ UNCHANGED <<results, idx>>
    ELSE /\ results' = Append(results,
                IF ok THEN result ELSE BatchErrorResult(signatures[idx], err))
         /\ idx' = idx + 1
         /\ mpc' = "batch"
         /\ UNCHANGED mret

\* lines 94-112: the match on the value of check_transaction_status
\* mutant: an error of the status check ends the session with that error
ConcludeRaisingErrors(kind, result) ==
    /\ evaluation' = [kind |-> kind, result |-> result]
    /\ IF kind = "Some" /\ result.status \in {"Confirmed", "Finalized", "Failed"}
       THEN Finish(TRUE, result, NoError)
       ELSE IF kind = "Err"
       THEN Finish(FALSE, NoResult, [kind |-> "NetworkError", msg |-> <<>>])
       ELSE /\ mpc' = "sleep"
            /\ UNCHANGED <<results, idx, mret>>

\* mutant: a Failed evaluation is not returned
ConcludeIgnoringFailed(kind, result) ==
    /\ evaluation' = [kind |-> kind, result |-> result]
    /\ IF kind = "Some" /\ result.status \in {"Confirmed", "Finalized"}
       THEN Finish(TRUE, result, NoError)
       ELSE /\ mpc' = "sleep"
            /\ UNCHANGED <<results, idx, mret>>

Conclude(kind, result) ==
    /\ evaluation' = [kind |-> kind, result |-> result]
    /\ IF kind = "Some" /\ result.status \in {"Confirmed", "Finalized", "Failed"}
       THEN Finish(TRUE, result, NoError)
       ELSE /\ mpc' = "sleep"
            /\ UNCHANGED <<results, idx, mret>>

\* a network call takes lat ticks
Elapse(lat) ==
    /\ latency + lat <= MaxLatency
    /\ latency' = latency + lat
    /\ clock' = clock + lat

\* lines 308-310, 329: head of the for loop of monitor_transactions_batch
BatchLoop ==
    /\ mpc = "batch"
    /\ IF idx <= Len(signatures)
       THEN /\ mpc' = "call"
            /\ UNCHANGED mret
       ELSE /\ mret' = [returned |-> TRUE, ok |-> TRUE, result |-> NoResult, err |-> NoError]
            /\ mpc' = "done"
    /\ IterationReset
    /\ UNCHANGED <<mode, mconfig, client, signatures, idx, results, signature, start,
                   clock, polls, naps, latency, all_pending, all_failed>>
    /\ UNCHANGED rvars

\* lines 85-88: entry of monitor_transaction_status
\* mutant: the deadline of every signature of a batch runs from the first start
MonitorEntrySharedDeadline ==
    /\ mpc = "call"
    /\ LET parsed == from_str(signatures[idx])
       IN  IF parsed.ok
           THEN /\ signature' = parsed.bytes
                /\ start' = IF idx = 1 THEN clock ELSE start
                /\ mpc' = "loop"
                /\ UNCHANGED <<results, idx, mret>>
           ELSE /\ Finish(FALSE, NoResult, InvalidInput(parsed.err))
                /\ UNCHANGED <<signature, start>>
    /\ IterationReset
    /\ polls' = 0
    /\ naps' = 0
    /\ latency' = 0
    /\ all_pending' = TRUE
    /\ all_failed' = TRUE
    /\ UNCHANGED <<mode, mconfig, client, signatures, clock>>
    /\ UNCHANGED rvars

\* mutant: a signature that does not parse is monitored as the default signature
MonitorEntryLenient ==
    /\ mpc = "call"
    /\ LET parsed == from_str(signatures[idx])
       IN  IF parsed.ok
           THEN /\ signature' = parsed.bytes
                /\ start' = clock
                /\ mpc' = "loop"
                /\ UNCHANGED <<results, idx, mret>>
           ELSE /\ signature' = Repeat(0, SigBytes)
                /\ start' = clock
                /\ mpc' = "loop"
                /\ UNCHANGED <<results, idx, mret>>
    /\ IterationReset
    /\ polls' = 0
    /\ naps' = 0
    /\ latency' = 0
    /\ all_pending' = TRUE
    /\ all_failed' = TRUE
    /\ UNCHANGED <<mode, mconfig, client, signatures, clock>>
    /\ UNCHANGED rvars

MonitorEntry ==
    /\ mpc = "call"
    /\ LET parsed == from_str(signatures[idx])
       IN  IF parsed.ok
           THEN /\ signature' = parsed.bytes
                /\ start' = clock
                /\ mpc' = "loop"
                /\ UNCHANGED <<results, idx, mret>>
           ELSE /\ Finish(FALSE, NoResult, InvalidInput(parsed.err))
                /\ UNCHANGED <<signature, start>>
    /\ IterationReset
    /\ polls' = 0
    /\ naps' = 0
    /\ latency' = 0
    /\ all_pending' = TRUE
    /\ all_failed' = TRUE
    /\ UNCHANGED <<mode, mconfig, client, signatures, clock>>
    /\ UNCHANGED rvars

\* line 89 and lines 115-123: the loop condition
\* mutant: the body runs only when a whole poll interval is left
LoopHeadWholeInterval ==
    /\ mpc = "loop"
    /\ IF clock - start + mconfig.poll_interval <= mconfig.timeout
       THEN /\ mpc' = "status"
            /\ UNCHANGED <<results, idx, mret>>
       ELSE Finish(TRUE, TimeoutResult(signature), NoError)
    /\ UNCHANGED <<mode, mconfig, client, signatures, signature, start, clock,
                   ivars, polls, naps, latency, all_pending, all_failed>>
    /\ UNCHANGED rvars

LoopHead ==
    /\ mpc = "loop"
    /\ IF clock - start < mconfig.timeout
       THEN /\ mpc' = "status"
            /\ UNCHANGED <<results, idx, mret>>
       ELSE Finish(TRUE, TimeoutResult(signature), NoError)
    /\ UNCHANGED <<mode, mconfig, client, signatures, signature, start, clock,
                   ivars, polls, naps, latency, all_pending, all_failed>>
    /\ UNCHANGED rvars

\* lines 133-140, 187: the status query
GetSignatureStatuses ==
    /\ mpc = "status"
    /\ polls' = polls + 1
    /\ IF ~client
       THEN \* ok_or(...)? : no call is made
            /\ probe' = "Err"
            /\ status_rec' = NoRecord
            /\ all_pending' = FALSE
            /\ all_failed' = all_failed
            /\ Conclude("Err", NoResult)
            /\ UNCHANGED <<clock, latency>>
       ELSE \E lat \in 0..MaxLatency, reply \in {"Err", "None", "Some"} :
            /\ Elapse(lat)
            /\ probe' = reply
            /\ CASE reply = "Err" ->
                      /\ status_rec' = NoRecord
                      /\ all_pending' = FALSE
                      /\ all_failed' = all_failed
                      /\ Conclude("Err", NoResult)
                 [] reply = "None" ->
                      /\ status_rec' = NoRecord
                      /\ all_pending' = FALSE
                      /\ all_failed' = FALSE
                      /\ mpc' = "via"
                      /\ UNCHANGED <<results, idx, mret, evaluation>>
                 [] reply = "Some" ->
                      \E status \in StatusRecords :
                        /\ status_rec' = status
                        /\ all_pending' =
                             (all_pending /\ TransactionStatusOf(status, mconfig) = "Pending")
                        /\ all_failed' = FALSE
                        /\ mpc' = "logs"
                        /\ UNCHANGED <<results, idx, mret, evaluation>>
    /\ UNCHANGED <<mode, mconfig, client, signatures, signature, start, naps,
                   logs, fetched, fetches>>
    /\ UNCHANGED rvars

\* lines 163-185 once the logs are there: the block-time query is needed only
\* for slot > 0
AfterLogs(lg) ==
    IF status_rec.slot > 0
    THEN /\ mpc' = "blocktime"
         /\ UNCHANGED <<results, idx, mret, evaluation>>
    ELSE Conclude("Some", StatusResult(signature, status_rec, mconfig, lg, 0))

\* lines 143-147 with get_transaction_logs (lines 241-273)
GetTransactionLogs ==
    /\ mpc = "logs"
    /\ fetches' = Append(fetches, "logs")
    /\ \E lat \in 0..MaxLatency, tx \in {NoTransaction} \cup FoundTransactions :
        /\ Elapse(lat)
        /\ fetched' = tx
        /\ IF ~tx.found
           THEN \* Err("transaction does not exist") propagated by ?
                /\ logs' = <<>>
                /\ Conclude("Err", NoResult)
           ELSE IF ~tx.log_messages.some
           THEN \* Ok(None).unwrap() aborts the task
                /\ logs' = <<>>
                /\ mpc' = "panic"
                /\ UNCHANGED <<results, idx, mret, evaluation>>
           ELSE /\ logs' = tx.log_messages.v
                /\ AfterLogs(tx.log_messages.v)
    /\ UNCHANGED <<mode, mconfig, client, signatures, signature, start, probe,
                   status_rec, polls, naps, all_pending, all_failed>>
    /\ UNCHANGED rvars

\* mutant: a failed block-time query counts as block time 0
GetBlockTimeLenient ==
    /\ mpc = "blocktime"
    /\ \E lat \in 0..MaxLatency, reply \in {NoneInt} \cup BlockTimes :
        /\ Elapse(lat)
        /\ IF reply = NoneInt
           THEN Conclude("Some", StatusResult(signature, status_rec, mconfig, logs, 0))
           ELSE Conclude("Some", StatusResult(signature, status_rec, mconfig, logs, reply))
    /\ UNCHANGED <<mode, mconfig, client, signatures, signature, start, probe,
                   status_rec, logs, fetched, fetches, polls, naps, all_pending, all_failed>>
    /\ UNCHANGED rvars

\* lines 164-174 followed by lines 175-185
GetBlockTime ==
    /\ mpc = "blocktime"
    /\ \E lat \in 0..MaxLatency, reply \in {NoneInt} \cup BlockTimes :
        /\ Elapse(lat)
        /\ IF reply = NoneInt
           THEN Conclude("Err", NoResult)
           ELSE Conclude("Some", StatusResult(signature, status_rec, mconfig, logs, reply))
    /\ UNCHANGED <<mode, mconfig, client, signatures, signature, start, probe,
                   status_rec, logs, fetched, fetches, polls, naps, all_pending, all_failed>>
    /\ UNCHANGED rvars

\* lines 187-190 with check_via_transaction (lines 194-238)
CheckViaTransaction ==
    /\ mpc = "via"
    /\ fetches' = Append(fetches, "via")
    /\ \E lat \in 0..MaxLatency, tx \in {NoTransaction} \cup FoundTransactions :
        /\ Elapse(lat)
        /\ fetched' = tx
        /\ IF tx.found
           THEN Conclude("Some", ViaResult(signature, tx, mconfig))
           ELSE Conclude("None", NoResult)
    /\ UNCHANGED <<mode, mconfig, client, signatures, signature, start, probe,
                   status_rec, logs, polls, naps, all_pending, all_failed>>
    /\ UNCHANGED rvars

\* mutant: the sleep lasts two poll intervals
SleepTwoIntervals ==
    /\ mpc = "sleep"
    /\ clock' = clock + 2 * mconfig.poll_interval
    /\ naps' = naps + 1
    /\ mpc' = "loop"
    /\ IterationReset
    /\ UNCHANGED <<mode, mconfig, client, signatures, idx, results, mret, signature,
                   start, polls, latency, all_pending, all_failed>>
    /\ UNCHANGED rvars

\* line 112: the sleep that ends an iteration (its locals are dropped)
Sleep ==
    /\ mpc = "sleep"
    /\ clock' = clock + mconfig.poll_interval
    /\ naps' = naps + 1
    /\ mpc' = "loop"
    /\ IterationReset
    /\ UNCHANGED <<mode, mconfig, client, signatures, idx, results, mret, signature,
                   start, polls, latency, all_pending, all_failed>>
    /\ UNCHANGED rvars

SessionNext ==
    \/ MonitorEntry
    \/ LoopHead
    \/ GetSignatureStatuses
    \/ GetTransactionLogs
    \/ GetBlockTime
    \/ CheckViaTransaction
    \/ Sleep

BatchNext == BatchLoop \/ SessionNext

\* the state of the part that is not running
RetryIdle ==
    /\ rconfig = [max_retries |-> 0, initial_delay |-> 500, max_delay |-> 5000,
                  backoff_multiplier |-> <<2, 1>>]
    /\ rpc = "done"
    /\ attempt = 0
    /\ attempts = 0
    /\ slept = <<>>
    /\ last_error = NoError
    /\ outcomes = <<>>
    /\ rret = [ok |-> FALSE, err |-> NoError, returned |-> FALSE]
    /\ QuoteIdle

MonitorIdle ==
    /\ mode = "single"
    /\ mconfig = [timeout |-> 0, poll_interval |-> 1, confirmations_required |-> 1]
    /\ client = TRUE
    /\ signatures = <<>>
    /\ mpc = "done"
    /\ SessionIdle

\* execute_with_retry alone
InitRetry == RetryInit /\ QuoteIdle /\ MonitorIdle

\* execute_with_retry and get_quote_with_retry on the same outcomes
InitQuote == RetryInit /\ QuoteInit /\ MonitorIdle

\* monitor_transaction_status alone
InitMonitor == RetryIdle /\ MonitorInit

\* monitor_transactions_batch alone
InitBatch == RetryIdle /\ BatchInit

\* either entry point of the monitor, under the batch configurations
InitEntry ==
    /\ RetryIdle
    /\ \/ MonitorInit /\ mconfig \in BatchConfigs
       \/ BatchInit

\* one execute_with_retry call and one monitor_transaction_status call started
\* together, each with one configuration
ConcurrentRetryConfig == [DefaultRetryConfig EXCEPT !.max_retries = 1]

ConcurrentMonitorConfig ==
    [timeout |-> 2, poll_interval |-> 1, confirmations_required |-> 1]

InitConcurrent ==
    /\ RetryInit
    /\ QuoteIdle
    /\ MonitorInit
    /\ rconfig = ConcurrentRetryConfig
    /\ mconfig = ConcurrentMonitorConfig
    /\ client

SpecRetry == InitRetry /\ [][RetryNext]_vars

RetryPairNext == RetryNext \/ QuoteNext

SpecQuote == InitQuote /\ [][RetryPairNext]_vars

SpecMonitor == InitMonitor /\ [][SessionNext]_vars

SpecBatch == InitBatch /\ [][BatchNext]_vars

\* the task is driven to completion: every await of the session completes
SpecMonitorLive == InitMonitor /\ [][SessionNext]_vars /\ WF_vars(SessionNext)

SpecEntry == InitEntry /\ [][BatchNext]_vars

\* the two calls interleaved at their await points
ConcurrentNext == RetryNext \/ SessionNext

SpecConcurrent == InitConcurrent /\ [][ConcurrentNext]_vars

(***************************************************************************)
(* Properties.                                                             *)
(***************************************************************************)
Parsable == signatures # <<>> /\ from_str(signatures[1]).ok

IsFatal(out) == out.kind # "Ok" /\ ~is_retriable(out)

CeilDiv(a, b) == (a + b - 1) \div b

\* C1: execute_with_retry invokes the operation at most max_retries + 1 times,
\* and exactly once when max_retries = 0.
C1_AttemptsBounded ==
    /\ attempts <= rconfig.max_retries + 1
    /\ (rconfig.max_retries = 0 /\ rret.returned) => attempts = 1

C1_Witness ==
    /\ rret.returned
    /\ ~rret.ok
    /\ rconfig.max_retries >= 1
    /\ attempts = rconfig.max_retries + 1

\* C2: the attempt that yields a non-retriable failure is the last attempt and
\* its error is what is returned; when it is the first attempt there was
\* exactly one attempt and no sleep, whatever max_retries is.
C2_FatalNeverRetried ==
    \A i \in 1..Len(outcomes) :
        IsFatal(outcomes[i]) =>
            /\ i = Len(outcomes)
            /\ rpc = "done"
            /\ rret = [ok |-> FALSE, err |-> outcomes[i], returned |-> TRUE]
            /\ (i = 1 => attempts = 1 /\ slept = <<>>)

C2_Witness ==
    /\ rret.returned
    /\ rconfig.max_retries >= 1
    /\ Len(outcomes) = 1
    /\ IsFatal(outcomes[1])

\* C3: an iteration whose status query got a record with err set ends by
\* returning a result with state Failed, whatever the transaction fetch and the
\* block-time query of that iteration do.
C3_ErrRecordReturnsFailed ==
    (mode = "single" /\ status_rec.err = "InstructionError"
        /\ mpc \in {"sleep", "panic", "done"})
    => (mpc = "done" /\ mret.ok /\ mret.result.status = "Failed")

\* C4: for a parsable signature monitor_transaction_status never aborts and
\* what it returns is Ok(result).
C4_AlwaysReturnsOk ==
    (mode = "single" /\ Parsable)
    => (mpc # "panic" /\ (mpc = "done" => mret.returned /\ mret.ok))

\* C5: the results of monitor_transactions_batch are in input order, one per
\* signature handled so far, the i-th carrying the i-th input signature; the
\* returned list is as long as the input.
C5_BatchLengthAndOrder ==
    mode = "batch" =>
        /\ Len(results) = idx - 1
        /\ Len(results) <= Len(signatures)
        /\ \A i \in 1..Len(results) : results[i].signature = signatures[i]
        /\ mret.returned => (mret.ok /\ Len(results) = Len(signatures))

C5_Witness ==
    /\ mode = "batch"
    /\ mret.returned
    /\ Len(signatures) >= 2
    /\ signatures[1] # signatures[2]
    /\ results[1].status = "Timeout"
    /\ results[2].status = "Failed"

\* C6: in a batch, a signature whose monitoring raised an error has a synthetic
\* Failed result at its position (slot 0, no confirmations, empty logs, the
\* message), and the batch is never aborted: it returns Ok.
C6_BatchIsolatesErrors ==
    mode = "batch" =>
        /\ mpc # "panic"
        /\ mpc = "done" => (mret.returned /\ mret.ok)
        /\ \A i \in 1..Len(results) :
             ~from_str(signatures[i]).ok =>
                /\ results[i].signature = signatures[i]
                /\ results[i].status = "Failed"
                /\ results[i].slot = 0
                /\ results[i].confirmations = NoneInt
                /\ results[i].logs = <<>>
                /\ results[i].error # "None"

\* C7: with timeout >= poll_interval > 0, instantaneous calls and every poll
\* getting a record without err and with a count below confirmations_required,
\* the session ends with TimedOut after ceil(T/P) polls, give or take one.
C7_PendingPollCount ==
    (mode = "single" /\ Parsable /\ all_pending /\ latency = 0
        /\ mconfig.timeout >= mconfig.poll_interval)
    => /\ mpc # "panic"
       /\ mpc = "done" =>
            /\ mret.result.status = "Timeout"
            /\ polls >= CeilDiv(mconfig.timeout, mconfig.poll_interval) - 1
            /\ polls <= CeilDiv(mconfig.timeout, mconfig.poll_interval) + 1

\* C8: an iteration whose status query got a record without err and without a
\* confirmation count ends by returning a result with state Finalized.
C8_AbsentCountFinalized ==
    (mode = "single" /\ status_rec.err = "None" /\ status_rec.confirmations = NoneInt
        /\ mpc \in {"sleep", "panic", "done"})
    => (mpc = "done" /\ mret.ok /\ mret.result.status = "Finalized")

\* C9: for a record without err and with confirmation count c, the evaluation
\* is Confirmed exactly when c >= confirmations_required and Pending exactly
\* when c < confirmations_required; a Pending evaluation is not returned (the
\* loop goes to its sleep) and the iteration never uses the fetch fallback.
C9_ThresholdPolicy ==
    (mode = "single" /\ status_rec.err = "None" /\ status_rec.confirmations # NoneInt)
    => /\ \A k \in 1..Len(fetches) : fetches[k] # "via"
       /\ evaluation.kind = "Some" =>
            /\ (evaluation.result.status = "Confirmed"
                  <=> status_rec.confirmations >= mconfig.confirmations_required)
            /\ (evaluation.result.status = "Pending"
                  <=> status_rec.confirmations < mconfig.confirmations_required)
            /\ (evaluation.result.status = "Pending"
                  => mpc = "sleep" /\ ~mret.returned)
            /\ (evaluation.result.status = "Confirmed"
                  => mpc = "done" /\ mret.ok /\ mret.result = evaluation.result)

C9_Witness ==
    /\ mode = "single"
    /\ polls >= 2
    /\ evaluation.kind = "Some"
    /\ evaluation.result.status = "Pending"
    /\ status_rec.confirmations + 1 = mconfig.confirmations_required
    /\ mpc = "sleep"

\* C10: when the status query has no record the iteration uses the transaction
\* fetch; a found transaction is returned as Confirmed with the fetched slot,
\* block time and logs, confirmations = confirmations_required and no error; a
\* fetch that finds nothing or fails leaves the iteration inconclusive and the
\* loop goes to its sleep.
C10_FallbackToFetch ==
    mode = "single" =>
        /\ (probe = "None" /\ mpc # "via") => fetches = <<"via">>
        /\ (fetches = <<"via">> /\ fetched.found) =>
             /\ evaluation.kind = "Some"
             /\ evaluation.result =
                  [signature |-> signatures[1], status |-> "Confirmed",
                   slot |-> fetched.slot, block_time |-> fetched.block_time,
                   confirmations |-> mconfig.confirmations_required,
                   logs |-> IF fetched.log_messages.some
                            THEN fetched.log_messages.v ELSE <<>>,
                   error |-> "None"]
             /\ mpc = "done"
             /\ mret.ok
             /\ mret.result = evaluation.result
        /\ (fetches = <<"via">> /\ ~fetched.found) =>
             /\ evaluation.kind = "None"
             /\ mpc = "sleep"
             /\ ~mret.returned

C10_Witness ==
    /\ mode = "single"
    /\ probe = "None"
    /\ fetches = <<"via">>
    /\ fetched.found
    /\ fetched.log_messages.some
    /\ mconfig.confirmations_required >= 1
    /\ mret.returned

\* d is min(initial_delay * multiplier^a, max_delay) in whole milliseconds
DelayIs(d, a, config) ==
    LET n == config.initial_delay * Pow(config.backoff_multiplier[1], a)
        m == Pow(config.backoff_multiplier[2], a)
    IN  IF n >= config.max_delay * m
        THEN d = config.max_delay
        ELSE d * m <= n /\ n < (d + 1) * m

\* C12: the error execute_with_retry returns is the failure of the last
\* attempt performed.
C12_LastErrorReturned ==
    (rret.returned /\ ~rret.ok) =>
        /\ Len(outcomes) >= 1
        /\ rret.err = outcomes[Len(outcomes)]

C12_Witness ==
    /\ rret.returned
    /\ ~rret.ok
    /\ Len(outcomes) >= 2
    /\ outcomes[1] # outcomes[Len(outcomes)]

\* C13: the i-th sleep of an execution is min(initial_delay *
\* multiplier^(i-1), max_delay) in whole milliseconds; the sleeps are
\* non-decreasing and none exceeds max_delay (all multipliers here are >= 1).
C13_BackoffDelays ==
    \A i \in 1..Len(slept) :
        /\ DelayIs(slept[i], i - 1, rconfig)
        /\ slept[i] <= rconfig.max_delay
        /\ i > 1 => slept[i - 1] <= slept[i]

C13_Witness ==
    /\ Len(slept) >= 2
    /\ slept[1] < slept[2]
    /\ slept[2] = rconfig.max_delay

\* C14: retriable failures on attempts 1..k-1 and a success on attempt k give
\* the success after exactly k attempts and k-1 sleeps delay(0)..delay(k-2); a
\* retriable failure on attempt k <= max_retries does not end the execution;
\* the default config with k = 3 sleeps 500 then 1000.
C14_SuccessAfterRetries ==
    LET k == Len(outcomes)
    IN  /\ attempts = k
        /\ (k > 0 /\ outcomes[k].kind = "Ok") =>
              /\ rret = [ok |-> TRUE, err |-> NoError, returned |-> TRUE]
              /\ Len(slept) = k - 1
              /\ \A i \in 1..(k - 1) :
                    /\ outcomes[i].kind # "Ok"
                    /\ is_retriable(outcomes[i])
                    /\ DelayIs(slept[i], i - 1, rconfig)
        /\ (k > 0 /\ k <= rconfig.max_retries /\ outcomes[k].kind # "Ok"
                /\ is_retriable(outcomes[k])) => ~rret.returned
        /\ (rconfig = DefaultRetryConfig /\ k = 3 /\ outcomes[3].kind = "Ok") =>
              slept = <<500, 1000>>

C14_Witness ==
    /\ rconfig = DefaultRetryConfig
    /\ rret.returned
    /\ rret.ok
    /\ attempts = 3
    /\ outcomes[1].kind = "NetworkError"
    /\ outcomes[2].kind = "NetworkError"

\* the status digits inside "HTTP {status}: {error_text}"
StatusOf(msg) == SubSeq(msg, 2, 4)

\* C15: NetworkError and RateLimitExceeded are retriable, RequestFailed is
\* retriable exactly when the response status is 5xx, every other error is not.
C15_RetriablePolicy ==
    \A i \in 1..Len(outcomes) :
        LET e == outcomes[i]
        IN  e.kind # "Ok" =>
              (is_retriable(e) <=>
                 \/ e.kind \in {"NetworkError", "RateLimitExceeded"}
                 \/ e.kind = "RequestFailed" /\ StatusOf(e.msg)[1] = 5)

\* C11: when the status query gives a record with slot > 0 whose state is
\* terminal (Failed, Finalized or Confirmed), the logs are requested from the
\* transaction fetch, and when that fetch fails the session still returns the
\* terminal state from that iteration.
C11_LogFetchFailureKeepsState ==
    (mode = "single" /\ probe = "Some" /\ status_rec.slot > 0
        /\ TransactionStatusOf(status_rec, mconfig) \in {"Failed", "Finalized", "Confirmed"}
        /\ mpc \notin {"status", "logs"})
    => /\ fetches # <<>>
       /\ fetches[1] = "logs"
       /\ ~fetched.found =>
            /\ mpc = "done"
            /\ mret.ok
            /\ mret.result.status = TransactionStatusOf(status_rec, mconfig)

\* C16 as stated: a session that leaves the loop on the deadline returns a
\* result with state Timeout, slot 0, no block time, no confirmation count,
\* empty logs and error "monitoring timeout", carrying the monitored
\* signature; Timeout is not returned while elapsed time < timeout.
C16_TimeoutResultAsStated ==
    (mode = "single" /\ mpc = "done" /\ Parsable /\ evaluation = NoEvaluation)
    => /\ mret.ok
       /\ mret.result =
            [signature |-> signatures[1], status |-> "Timeout", slot |-> 0,
             block_time |-> NoneInt, confirmations |-> NoneInt, logs |-> <<>>,
             error |-> "monitoring timeout"]
       /\ clock - start >= mconfig.timeout

\* C16 amended: the same, the error text being "Transaction monitoring
\* timeout"; and any returned result with state Timeout is that result,
\* returned at elapsed time >= timeout.
C16_TimeoutResult ==
    mode = "single" =>
        /\ (mpc = "done" /\ Parsable /\ evaluation = NoEvaluation) =>
             /\ mret.ok
             /\ mret.result =
                  [signature |-> signatures[1], status |-> "Timeout", slot |-> 0,
                   block_time |-> NoneInt, confirmations |-> NoneInt, logs |-> <<>>,
                   error |-> "Transaction monitoring timeout"]
             /\ clock - start >= mconfig.timeout
        /\ (mret.returned /\ mret.ok /\ mret.result.status = "Timeout") =>
             /\ evaluation = NoEvaluation
             /\ clock - start >= mconfig.timeout

C16_Witness ==
    /\ mode = "single"
    /\ mret.returned
    /\ mret.ok
    /\ mret.result.status = "Timeout"
    /\ polls >= 2
    /\ naps >= 2
    /\ clock - start > mconfig.timeout

\* C17: monitor_transaction_status called directly with an unparsable
\* signature returns Err(InvalidInput) having made no status query, no
\* transaction fetch and no sleep; monitor_transactions_batch given the same
\* signature does not return an error: it records a Failed result for it, again
\* without query, fetch or sleep, and goes on.
C17_UnparsableSignature ==
    /\ (mode = "single" /\ ~Parsable) =>
         /\ mpc \in {"call", "done"}
         /\ polls = 0 /\ naps = 0 /\ fetches = <<>> /\ clock = 0
         /\ mpc = "done" =>
              /\ mret.returned /\ ~mret.ok
              /\ mret.err = InvalidInput(from_str(signatures[1]).err)
    /\ mode = "batch" =>
         /\ mret.returned => mret.ok
         /\ (mpc # "batch" /\ idx <= Len(signatures) /\ ~from_str(signatures[idx]).ok)
              => mpc = "call"
         /\ \A i \in 1..Len(results) :
              ~from_str(signatures[i]).ok =>
                /\ results[i] = BatchErrorResult(signatures[i],
                                    InvalidInput(from_str(signatures[i]).err))
                /\ (i = idx - 1 /\ mpc = "batch") =>
                     polls = 0 /\ naps = 0 /\ fetches = <<>>

C17_Witness ==
    /\ mode = "batch"
    /\ mret.returned
    /\ Len(results) = 2
    /\ ~from_str(signatures[1]).ok
    /\ from_str(signatures[2]).ok
    /\ results[1].error = "Invalid input: failed to decode string to signature"
    /\ results[2].status = "Confirmed"

\* C18: a monitoring session has returned nothing while it polls; an iteration
\* whose evaluation is Confirmed, Finalized or Failed returns that evaluation
\* at once, with no further query, fetch or sleep; a returned result is never
\* Pending; and once the session has returned, nothing changes any more.
C18_TerminalIsFinal ==
    /\ [](mode = "single" =>
            /\ mpc \in {"call", "loop", "status", "logs", "blocktime", "via", "sleep"}
                 => ~mret.returned
            /\ (evaluation.kind = "Some"
                  /\ evaluation.result.status \in {"Confirmed", "Finalized", "Failed"})
                 => /\ mpc = "done"
                    /\ mret.returned /\ mret.ok
                    /\ mret.result = evaluation.result
            /\ (mret.returned /\ mret.ok)
                 => mret.result.status \in {"Confirmed", "Finalized", "Failed", "Timeout"})
    /\ [][(mode = "single" /\ mret.returned) => UNCHANGED mvars]_vars

C18_Witness ==
    /\ mode = "single"
    /\ polls >= 2
    /\ naps >= 1
    /\ evaluation.kind = "Some"
    /\ evaluation.result.status = "Failed"
    /\ mret.returned
    /\ mret.result.status = "Failed"

\* status queries sent so far: one per status check when a client is there
StatusQueries == IF client THEN polls ELSE 0

\* C19 as stated: with timeout < poll_interval the session sends no status
\* query and what it returns is the Timeout result.
C19_NeverPollsAsStated ==
    (mode = "single" /\ Parsable /\ mconfig.timeout < mconfig.poll_interval)
    => /\ StatusQueries = 0
       /\ mpc = "done" => (mret.ok /\ mret.result.status = "Timeout")

\* C19 amended: with timeout < poll_interval the loop body runs at most once
\* and the loop sleeps at most once; with timeout > 0 the body runs once, at
\* elapsed time 0, sending one status query when a client is there, and a
\* Timeout result is returned after exactly that one run and one sleep; with
\* timeout = 0 the Timeout result is returned without any run of the body.
C19_ShortTimeoutPollsOnce ==
    (mode = "single" /\ Parsable /\ mconfig.timeout < mconfig.poll_interval)
    => /\ polls <= 1 /\ naps <= 1 /\ StatusQueries <= 1
       /\ (mpc = "status" /\ polls = 0) => clock = start
       /\ (mret.returned /\ mret.ok /\ mret.result.status = "Timeout") =>
            IF mconfig.timeout > 0
            THEN polls = 1 /\ naps = 1 /\ StatusQueries = (IF client THEN 1 ELSE 0)
            ELSE polls = 0 /\ naps = 0 /\ StatusQueries = 0
       /\ (mconfig.timeout > 0 /\ mpc \notin {"call", "loop", "status"}) => polls = 1

C19_Witness ==
    /\ mode = "single"
    /\ Parsable
    /\ client
    /\ mconfig.timeout = 1
    /\ mconfig.poll_interval = 2
    /\ mret.returned
    /\ mret.result.status = "Timeout"
    /\ StatusQueries = 1

\* C20: when an execute_with_retry call and a monitor_transaction_status call
\* run interleaved at their await points, every step that changes the state
\* of one call is a step of that call as it runs alone and leaves the state of
\* the other call untouched; the elapsed time the monitor reads is made of its
\* own sleeps and its own waits only, and the retry call has slept once per
\* attempt but the last, each time for its own backoff delay; so each call
\* returns what it returns alone, after as many attempts or polls.
C20_NoInterference ==
    /\ [][/\ rvars' # rvars => (RetryNext /\ mvars' = mvars)
          /\ mvars' # mvars => (SessionNext /\ rvars' = rvars)]_vars
    /\ [](/\ mpc \notin {"call"} =>
               clock - start = naps * mconfig.poll_interval + latency
          /\ attempts = Len(outcomes)
          /\ Len(slept) = attempt
          /\ \A k \in 1..Len(slept) : slept[k] = cal_delay(k - 1, rconfig)
          /\ rret.returned =>
               /\ attempts <= rconfig.max_retries + 1
               /\ rret.ok <=> outcomes[attempts].kind = "Ok"
               /\ ~rret.ok => rret.err = outcomes[attempts])

C20_Witness ==
    /\ rret.returned
    /\ mret.returned
    /\ Len(slept) >= 1
    /\ naps >= 1
    /\ polls >= 2

\* C21: while every status query of a session has failed (network error or
\* no client), the session makes no fetch, does not abort, and returns only
\* the Timeout result, at elapsed time >= timeout; and a session all of whose
\* status queries fail does return.
C21_OnlyDeadlineEndsFailingSession ==
    /\ []((mode = "single" /\ Parsable /\ all_failed) =>
            /\ mpc \in {"call", "loop", "status", "sleep", "done"}
            /\ mpc = "done" =>
                 /\ mret.returned /\ mret.ok
                 /\ mret.result.status = "Timeout"
                 /\ clock - start >= mconfig.timeout
                 /\ polls = naps)
    /\ <>(~all_failed \/ mret.returned)

C21_Witness ==
    /\ mode = "single"
    /\ Parsable
    /\ all_failed
    /\ client
    /\ polls >= 3
    /\ mret.returned
    /\ mret.result.status = "Timeout"

\* C22: a session has slept once, for poll_interval, between any two
\* iterations of its loop, whatever the earlier iteration ended with (a
\* Pending record, no record from either source, or an error of a query or a
\* fetch): the iterations begun are one more than the sleeps while an
\* iteration runs and as many as the sleeps at the loop's head, and the
\* elapsed time is the sleeps plus the waits for replies.
C22_SleepBetweenPolls ==
    (mode = "single" /\ Parsable /\ mpc # "call") =>
        /\ mpc \in {"loop", "status"} => polls = naps
        /\ mpc \in {"logs", "blocktime", "via", "sleep", "panic"} => polls = naps + 1
        /\ mpc = "done" => polls \in {naps, naps + 1}
        /\ mpc = "sleep" => evaluation.kind \in {"None", "Err"}
                              \/ (evaluation.kind = "Some"
                                    /\ evaluation.result.status = "Pending")
        /\ clock - start = naps * mconfig.poll_interval + latency

C22_Witness ==
    /\ mode = "single"
    /\ Parsable
    /\ client
    /\ all_failed
    /\ polls = 2
    /\ naps = 1
    /\ mpc = "sleep"
    /\ probe = "Err"
    /\ clock - start >= mconfig.poll_interval

\* the error field of a result is Some(text)
HasError(r) == r.error # "None"

\* C23: a result returned by monitor_transaction_status, or placed in the
\* output of monitor_transactions_batch, has an error exactly when its state
\* is Failed or Timeout; a Confirmed or Finalized result has none.
C23_ErrorIffFailedOrTimeout ==
    /\ (mode = "single" /\ mret.returned /\ mret.ok) =>
         /\ HasError(mret.result) <=> mret.result.status \in {"Failed", "Timeout"}
         /\ mret.result.status \in {"Confirmed", "Finalized"} => ~HasError(mret.result)
    /\ mode = "batch" =>
         \A i \in 1..Len(results) :
            /\ HasError(results[i]) <=> results[i].status \in {"Failed", "Timeout"}
            /\ results[i].status \in {"Confirmed", "Finalized"} => ~HasError(results[i])

C23_Witness ==
    /\ mode = "batch"
    /\ mret.returned
    /\ Len(results) = 2
    /\ results[1].status = "Failed"
    /\ results[1].error = "InstructionError"
    /\ results[2].status = "Finalized"
    /\ results[2].error = "None"

\* C24: a returned result with state Confirmed has a confirmation count, the
\* count is >= confirmations_required, and when the result was built from a
\* status record the count is the one the record carried, whatever its size.
C24_ConfirmedCountReported ==
    (mode = "single" /\ mret.returned /\ mret.ok /\ mret.result.status = "Confirmed")
    => /\ mret.result.confirmations # NoneInt
       /\ mret.result.confirmations >= mconfig.confirmations_required
       /\ probe = "Some" => mret.result.confirmations = status_rec.confirmations

\* C25: the block time is queried only for a record with slot > 0; a result
\* built from a status record carries block time 0 when slot = 0 and the
\* queried block time when slot > 0; an iteration whose block-time query
\* failed has no result, even when the record was Failed, Finalized or
\* Confirmed: nothing is returned and the loop goes to its sleep.
C25_BlockTimeFailureDiscards ==
    mode = "single" =>
        /\ mpc = "blocktime" => status_rec.slot > 0
        /\ (probe = "Some" /\ evaluation.kind = "Some") =>
             /\ evaluation.result.slot = status_rec.slot
             /\ status_rec.slot = 0 => evaluation.result.block_time = 0
             /\ status_rec.slot > 0 => evaluation.result.block_time \in BlockTimes
        /\ (probe = "Some" /\ fetched.found /\ fetched.log_messages.some
              /\ evaluation.kind = "Err") =>
             /\ status_rec.slot > 0
             /\ mpc = "sleep"
             /\ ~mret.returned

C25_Witness ==
    /\ mode = "single"
    /\ polls = 2
    /\ probe = "Some"
    /\ status_rec.slot > 0
    /\ TransactionStatusOf(status_rec, mconfig) = "Failed"
    /\ fetched.found
    /\ fetched.log_messages.some
    /\ evaluation.kind = "Err"
    /\ mpc = "sleep"

\* C26: a result with state Failed comes from a status record with err set,
\* or, in a batch, stands for a signature whose monitoring returned an error;
\* the result of the transaction-fetch fallback is Confirmed without error,
\* whatever the fetched transaction holds (its meta's err included).
C26_FailedOnlyFromErrRecord ==
    /\ (evaluation.kind = "Some" /\ evaluation.result.status = "Failed") =>
         /\ probe = "Some"
         /\ status_rec.err # "None"
         /\ evaluation.result.error = status_rec.err
    /\ (evaluation.kind = "Some" /\ probe = "None") =>
         /\ fetches = <<"via">>
         /\ evaluation.result.status = "Confirmed"
         /\ evaluation.result.error = "None"
    /\ (mode = "single" /\ mret.returned /\ mret.ok /\ mret.result.status = "Failed") =>
         mret.result = evaluation.result
    /\ mode = "batch" =>
         \A i \in 1..Len(results) :
            results[i].status = "Failed" =>
               IF from_str(signatures[i]).ok
               THEN results[i].error = "InstructionError"
               ELSE results[i] = BatchErrorResult(signatures[i],
                                     InvalidInput(from_str(signatures[i]).err))

C26_Witness ==
    /\ mode = "batch"
    /\ mpc = "batch"
    /\ Len(results) = 2
    /\ results[1].status = "Failed"
    /\ ~from_str(signatures[1]).ok
    /\ results[2].status = "Confirmed"
    /\ probe = "None"
    /\ fetched.found
    /\ fetched.err = "InstructionError"

C28_SleepsBetweenAttempts ==
    /\ rpc = "call" => Len(slept) = attempts
    /\ rpc = "sleep" => Len(slept) = attempts - 1
    /\ rret.returned => (attempts >= 1 /\ Len(slept) = attempts - 1)
    /\ attempts = 0 => slept = <<>>
    /\ \A k \in 1..Len(outcomes) :
         (k <= Len(slept) \/ (k = Len(outcomes) /\ rpc = "sleep"))
            <=> (outcomes[k].kind # "Ok" /\ is_retriable(outcomes[k])
                   /\ k <= rconfig.max_retries)

C28_Witness ==
    /\ rret.returned
    /\ ~rret.ok
    /\ rconfig.max_retries = 2
    /\ attempts = 3
    /\ Len(slept) = 2
    /\ is_retriable(outcomes[3])

\* C29: run with the same max_retries on the same outcomes of the operation,
\* get_quote_with_retry and execute_with_retry make the same number of
\* attempts and return the same value (Ok, or the failure of the last
\* attempt), and sleep the same number of times; the k-th sleep of
\* get_quote_with_retry is 200 * k ms, with no cap, and that of
\* execute_with_retry is its backoff delay.
C29_QuoteRetryEquivalent ==
    /\ qattempts <= Len(outcomes)
    /\ (rpc = "done" /\ qattempts = Len(outcomes)) => qpc = "done"
    /\ qpc = "done" =>
         /\ rpc = "done"
         /\ qattempts = attempts
         /\ qret = rret
         /\ Len(qslept) = Len(slept)
         /\ ~qret.ok => qret.err = outcomes[qattempts]
    /\ \A k \in 1..Len(qslept) : qslept[k] = QuoteDelayStep * k
    /\ \A k \in 1..Len(slept) : slept[k] = cal_delay(k - 1, rconfig)

C29_Witness ==
    /\ qpc = "done"
    /\ rpc = "done"
    /\ ~qret.ok
    /\ qattempts = 3
    /\ qslept = <<200, 400>>
    /\ slept # qslept
    /\ rconfig.max_delay < QuoteDelayStep

\* C30: with confirmations_required = 0 a status record is never Pending: a
\* record without err is Confirmed when it has a confirmation count (0
\* included) and Finalized when it has none; so an iteration that goes to the
\* sleep, and with it any Timeout, had no record from the status query or an
\* error of a query or of a fetch.
C30_ZeroRequiredNeverPending ==
    (mode = "single" /\ mconfig.confirmations_required = 0) =>
        /\ probe = "Some" =>
             TransactionStatusOf(status_rec, mconfig) =
                IF status_rec.err # "None" THEN "Failed"
                ELSE IF status_rec.confirmations = NoneInt THEN "Finalized"
                ELSE "Confirmed"
        /\ evaluation.kind = "Some" => evaluation.result.status # "Pending"
        /\ polls >= 1 => ~all_pending
        /\ mpc = "sleep" =>
             \/ probe = "None" /\ evaluation.kind = "None"
             \/ evaluation.kind = "Err"
        /\ (mret.returned /\ mret.ok /\ mret.result.status = "Timeout") =>
             evaluation = NoEvaluation

C30_Witness ==
    /\ mode = "single"
    /\ mconfig.confirmations_required = 0
    /\ mret.returned
    /\ mret.result.status = "Timeout"
    /\ polls >= 2
    /\ ~all_failed

====
